---- MODULE Spec2Model ----
(***************************************************************************)
(* A model of instruments/util_fns.py: the property factories              *)
(* (bool_property, enum_property, unitless_property, int_property,         *)
(* unitful_property, string_property), assume_units, rproperty and         *)
(* ProxyList.                                                              *)
(*                                                                         *)
(* Text is a sequence of one-character strings, so that slicing,           *)
(* stripping, formatting and parsing are computed character by character.  *)
(* Python values are records of one shape, tagged by their type.           *)
(***************************************************************************)
EXTENDS Integers, Sequences, FiniteSets, TLC

VARIABLES
    acc,      \* the property under test: the factory's arguments and its fset
    log,      \* the calls the instrument's transport has received, in order
    hist,     \* the attribute reads and writes made so far, with their outcomes
    plist,    \* the ProxyList under test: _parent, _proxy_cls, _valid_set, _isenum
    iters,    \* the generators __iter__ has returned: position and elements yielded
    got,      \* the __getitem__ calls made so far, with their outcomes
    made      \* how many times _proxy_cls has been called

vars == <<acc, log, hist, plist, iters, got, made>>

\* ------------------------------------------------------------------ bounds

\* attribute accesses made on one property
MaxOps == 2
\* generators alive at once
MaxIters == 2
\* __getitem__ calls made on one ProxyList
MaxGets == 2

\* ------------------------------------------------------------------ values

Val(t, s, n, e, u) == [t |-> t, s |-> s, n |-> n, e |-> e, u |-> u]

None == Val("none", <<>>, 0, 0, "")
PyStr(s) == Val("str", s, 0, 0, "")
PyInt(n) == Val("int", <<>>, n, 0, "")
PyBool(b) == Val("bool", <<>>, IF b THEN 1 ELSE 0, 0, "")
\* an exception of the named type, raised to the caller
Raise(kind) == Val("error", <<>>, 0, 0, kind)
\* an item of enum class cls, by its attribute name
EnumItem(cls, name) == Val("enum", name, 0, 0, cls)

\* A float is m * 10^e, kept normal: m has no trailing zero, and 0 is (0, 0).
\* The model's magnitudes have at most seven significant digits, which a
\* Python float and the six decimals of '{:e}' carry exactly.
RECURSIVE Normal(_, _)
Normal(m, e) ==
    IF m = 0 THEN <<0, 0>>
    ELSE IF m % 10 = 0 THEN Normal(m \div 10, e + 1)
    ELSE <<m, e>>

PyFloat(m, e) == Val("float", <<>>, Normal(m, e)[1], Normal(m, e)[2], "")
\* pq.Quantity(magnitude, units)
Quantity(m, e, u) == Val("qty", <<>>, Normal(m, e)[1], Normal(m, e)[2], u)

IsError(v) == v.t = "error"

\* -------------------------------------------------------------------- text

Whitespace == {" ", "\n", "\t"}
DigitChars == <<"0", "1", "2", "3", "4", "5", "6", "7", "8", "9">>
IsDigit(c) == \E k \in 1..10 : DigitChars[k] = c
DigitOf(c) == (CHOOSE k \in 1..10 : DigitChars[k] = c) - 1

RECURSIVE lstrip(_)
lstrip(s) == IF s # <<>> /\ Head(s) \in Whitespace THEN lstrip(Tail(s)) ELSE s

RECURSIVE rstrip(_)
rstrip(s) ==
    IF s # <<>> /\ s[Len(s)] \in Whitespace
    THEN rstrip(SubSeq(s, 1, Len(s) - 1))
    ELSE s

\* str.strip()
strip(s) == rstrip(lstrip(s))

\* s[i:j] for 0 <= i and j <= 0 counted from the end (Python's slice)
Slice(s, i, jFromEnd) ==
    LET stop == IF Len(s) - jFromEnd < 0 THEN 0 ELSE Len(s) - jFromEnd
    IN  IF i >= stop THEN <<>> ELSE SubSeq(s, i + 1, stop)

RECURSIVE digits(_)
digits(n) ==
    IF n < 10 THEN <<DigitChars[n + 1]>>
    ELSE digits(n \div 10) \o <<DigitChars[(n % 10) + 1]>>

Abs(n) == IF n < 0 THEN -n ELSE n

\* '{:d}'.format(n), str(n)
str_int(n) == IF n < 0 THEN <<"-">> \o digits(-n) ELSE digits(n)

RECURSIVE zeros(_)
zeros(k) == IF k <= 0 THEN <<>> ELSE <<"0">> \o zeros(k - 1)

\* '{:e}'.format(m * 10^e): one digit, six decimals, a signed exponent of at
\* least two digits
str_e(m, e) ==
    LET ds == digits(Abs(m))
        k == Len(ds)
        x == IF m = 0 THEN 0 ELSE e + k - 1
        xs == digits(Abs(x))
    IN  (IF m < 0 THEN <<"-">> ELSE <<>>)
        \o <<ds[1], ".">> \o SubSeq(ds, 2, k) \o zeros(6 - (k - 1))
        \o <<"e">> \o (IF x < 0 THEN <<"-">> ELSE <<"+">>)
        \o (IF Len(xs) < 2 THEN <<"0">> \o xs ELSE xs)

\* str(v), as "{}".format(v) renders it
str(v) ==
    CASE v.t = "str" -> v.s
      [] v.t = "int" -> str_int(v.n)
      [] v.t = "float" -> str_e(v.n, v.e)
      [] OTHER -> <<"?">>

\* format_code.format(v) for the codes '{:d}' and '{:e}'; '{:d}' refuses a float
format(format_code, v) ==
    CASE format_code = "d" /\ v.t = "int" -> PyStr(str_int(v.n))
      [] format_code = "e" /\ v.t \in {"int", "float"} -> PyStr(str_e(v.n, v.e))
      [] OTHER -> Raise("ValueError")

RECURSIVE TakeDigits(_)
TakeDigits(s) ==
    IF s # <<>> /\ IsDigit(Head(s)) THEN <<Head(s)>> \o TakeDigits(Tail(s)) ELSE <<>>

RECURSIVE NatOf(_)
NatOf(ds) ==
    IF ds = <<>> THEN 0 ELSE 10 * NatOf(SubSeq(ds, 1, Len(ds) - 1)) + DigitOf(ds[Len(ds)])

Drop(s, k) == SubSeq(s, k + 1, Len(s))
HasSign(s) == s # <<>> /\ Head(s) \in {"+", "-"}
SignOf(s) == IF s # <<>> /\ Head(s) = "-" THEN -1 ELSE 1
Unsigned(s) == IF HasSign(s) THEN Tail(s) ELSE s

\* int(raw): surrounding whitespace is skipped, then an optional sign and digits
int(raw) ==
    LET t == strip(raw)
        body == Unsigned(t)
    IN  IF body # <<>> /\ TakeDigits(body) = body
        THEN PyInt(SignOf(t) * NatOf(body))
        ELSE Raise("ValueError")

\* float(raw): surrounding whitespace is skipped, then
\* [sign] digits [. digits] [e [sign] digits]
float(raw) ==
    LET t == strip(raw)
        body == Unsigned(t)
        ip == TakeDigits(body)
        r1 == Drop(body, Len(ip))
        dot == r1 # <<>> /\ Head(r1) = "."
        fp == IF dot THEN TakeDigits(Tail(r1)) ELSE <<>>
        r2 == IF dot THEN Drop(r1, 1 + Len(fp)) ELSE r1
        hasE == r2 # <<>> /\ Head(r2) \in {"e", "E"}
        ex == IF hasE THEN Tail(r2) ELSE <<>>
        ed == TakeDigits(Unsigned(ex))
        r3 == IF hasE THEN Drop(Unsigned(ex), Len(ed)) ELSE r2
        ok == /\ Len(ip) + Len(fp) > 0
              /\ hasE => Len(ed) > 0
              /\ r3 = <<>>
    IN  IF ok
        THEN PyFloat(SignOf(t) * NatOf(ip \o fp), SignOf(ex) * NatOf(ed) - Len(fp))
        ELSE Raise("ValueError")

\* ------------------------------------------------------------------- enums

\* The enum classes of the model (flufl.enum), as an instrument class would
\* declare them:
\*   class Mode(Enum):    ac = "AC"; dc = "DC"
\*   class Chan(Enum):    a = 1; b = 2; c = 3
\*   class Port(IntEnum): p = 8; q = 9
\*   class ChanExt(Chan): d = 4          (an enum extended by subclassing)

\* cls.__bases__
EnumBases(cls) ==
    CASE cls = "Mode" -> {"Enum"}
      [] cls = "Chan" -> {"Enum"}
      [] cls = "Port" -> {"IntEnum"}
      [] cls = "ChanExt" -> {"Chan"}

Member(cls, name, value) == [item |-> EnumItem(cls, name), value |-> value]

\* The items of cls with their values, in the order iter(cls) gives them
\* (by value); an inherited item is the base class's own item object.
EnumMembers(cls) ==
    CASE cls = "Mode" ->
            << Member("Mode", <<"a", "c">>, PyStr(<<"A", "C">>)),
               Member("Mode", <<"d", "c">>, PyStr(<<"D", "C">>)) >>
      [] cls = "Chan" ->
            << Member("Chan", <<"a">>, PyInt(1)),
               Member("Chan", <<"b">>, PyInt(2)),
               Member("Chan", <<"c">>, PyInt(3)) >>
      [] cls = "Port" ->
            << Member("Port", <<"p">>, PyInt(8)),
               Member("Port", <<"q">>, PyInt(9)) >>
      [] cls = "ChanExt" ->
            << Member("Chan", <<"a">>, PyInt(1)),
               Member("Chan", <<"b">>, PyInt(2)),
               Member("Chan", <<"c">>, PyInt(3)),
               Member("ChanExt", <<"d">>, PyInt(4)) >>

\* the items of cls, in iteration order
EnumItems(cls) == [k \in 1..Len(EnumMembers(cls)) |-> EnumMembers(cls)[k].item]

\* item.value
ItemValue(item) ==
    LET ms == EnumMembers(item.u)
    IN  ms[CHOOSE k \in 1..Len(ms) : ms[k].item = item].value

\* an IntEnum item is an int and compares equal to its value
IsIntItem(v) == v.t = "enum" /\ "IntEnum" \in EnumBases(v.u)

\* a == b between two Python values
PyEq(a, b) ==
    \/ a = b
    \/ IsIntItem(a) /\ ItemValue(a) = b
    \/ IsIntItem(b) /\ ItemValue(b) = a
    \/ IsIntItem(a) /\ IsIntItem(b) /\ ItemValue(a) = ItemValue(b)

\* enum[item]: the item of cls with item as its value, else with item's own
\* value as its value, else with item as its attribute name; ValueError if none
EnumGetItem(cls, item) ==
    LET ms == EnumMembers(cls)
        key == IF item.t = "enum" THEN ItemValue(item) ELSE item
        byValue == {k \in 1..Len(ms) : ms[k].value = key}
        byName == {k \in 1..Len(ms) : item.t = "str" /\ ms[k].item.s = item.s}
    IN  IF byValue # {} THEN ms[CHOOSE k \in byValue : TRUE].item
        ELSE IF byName # {} THEN ms[CHOOSE k \in byName : TRUE].item
        ELSE Raise("ValueError")

\* ------------------------------------------------------------------- units

\* the units of the model: V, mV and s
UnitDimension(u) == IF u = "s" THEN "time" ELSE "voltage"
\* the unit is 10^UnitExponent of its dimension's base unit
UnitExponent(u) == IF u = "mV" THEN -3 ELSE 0

\* Quantity.rescale(units): ValueError when the dimensions differ
rescale(q, units) ==
    IF UnitDimension(q.u) # UnitDimension(units)
    THEN Raise("ValueError")
    ELSE Quantity(q.n, q.e + UnitExponent(q.u) - UnitExponent(units), units)

\* Quantity.item(): the magnitude as a float
magnitude(q) == PyFloat(q.n, q.e)

\* assume_units, were it to tag every value with units, a Quantity's own unit lost
assume_units_override(value, units) == Quantity(value.n, value.e, units)

assume_units(value, units) ==
    IF value.t # "qty" THEN Quantity(value.n, value.e, units) ELSE value

\* --------------------------------------------------------------- factories

\* rproperty, were it to pass fset on whatever readonly says
rproperty_keeps_fset(fset, readonly) == fset

\* property(fget, fset): TRUE when the property has a setter
rproperty(fset, readonly) == IF readonly THEN FALSE ELSE fset

\* What the closures of a factory call hold, and the property it returned.
Descriptor(kind, name, readonly) ==
    [ kind |-> kind, name |-> name, readonly |-> readonly,
      fset |-> rproperty(TRUE, readonly),
      inst_true |-> <<>>, inst_false |-> <<>>,
      enum |-> "", input_decoration |-> "None", output_decoration |-> "None",
      format_code |-> "", has_valid_set |-> FALSE, valid_set |-> {},
      units |-> "", bookmark_symbol |-> <<>> ]

bool_property(name, inst_true, inst_false, readonly) ==
    [Descriptor("bool", name, readonly) EXCEPT
        !.inst_true = inst_true, !.inst_false = inst_false]

enum_property(name, enum, input_decoration, output_decoration, readonly) ==
    [Descriptor("enum", name, readonly) EXCEPT
        !.enum = enum, !.input_decoration = input_decoration,
        !.output_decoration = output_decoration]

unitless_property(name, format_code, readonly) ==
    [Descriptor("unitless", name, readonly) EXCEPT !.format_code = format_code]

\* valid_set is None when has_valid_set is FALSE
int_property(name, format_code, readonly, has_valid_set, valid_set) ==
    [Descriptor("int", name, readonly) EXCEPT
        !.format_code = format_code, !.has_valid_set = has_valid_set,
        !.valid_set = valid_set]

unitful_property(name, units, format_code, readonly) ==
    [Descriptor("unitful", name, readonly) EXCEPT
        !.units = units, !.format_code = format_code]

string_property(name, bookmark_symbol, readonly) ==
    [Descriptor("string", name, readonly) EXCEPT !.bookmark_symbol = bookmark_symbol]

\* A setter's outcome: the commands it passed to sendcmd, and None or the
\* exception it raised.
Sent(text) == [out |-> None, cmds |-> <<text>>]
Failed(err) == [out |-> err, cmds |-> <<>>]

\* the command text, were the format string to lack its space
Command_no_space(name, token) == name \o token

\* "{} {}".format(name, token)
Command(name, token) == name \o <<" ">> \o token

\* name + "?", "{}?".format(name)
query_cmd(d) == d.name \o <<"?">>

\* The decoration functions an instrument class passes: None, int,
\* lambda s: s[1:-1] ("unquote") and lambda v: '"{}"'.format(v) ("quote").
Decorate(fn, val) ==
    CASE fn = "None" -> val
      [] fn = "int" -> IF val.t = "str" THEN int(val.s) ELSE val
      [] fn = "unquote" -> IF val.t = "str" THEN PyStr(Slice(val.s, 1, 1)) ELSE Raise("TypeError")
      [] fn = "quote" -> PyStr(<<"\"">> \o str(val) \o <<"\"">>)

in_decor_fcn(d, val) == Decorate(d.input_decoration, val)
out_decor_fcn(d, val) == Decorate(d.output_decoration, val)

bool_getter(d, raw) == PyBool(strip(raw) = d.inst_true)

\* a bool is true when it is True
Truthy(v) == v.n # 0

\* bool_setter, were it to pick the literals the wrong way round
bool_setter_swapped(d, newval) ==
    Sent(Command(d.name, IF Truthy(newval) THEN d.inst_false ELSE d.inst_true))

bool_setter(d, newval) ==
    Sent(Command(d.name, IF Truthy(newval) THEN d.inst_true ELSE d.inst_false))

\* enum_getter, were it to look the response up without the input decoration
enum_getter_undecorated(d, raw) == EnumGetItem(d.enum, PyStr(strip(raw)))

enum_getter(d, raw) ==
    LET val == in_decor_fcn(d, PyStr(strip(raw)))
    IN  IF IsError(val) THEN val ELSE EnumGetItem(d.enum, val)

enum_setter(d, newval) ==
    LET it == EnumGetItem(d.enum, newval)
        val == out_decor_fcn(d, ItemValue(it))
    IN  IF IsError(it) THEN Failed(it)
        ELSE IF IsError(val) THEN Failed(val)
        ELSE Sent(Command(d.name, str(val)))

unitless_getter(d, raw) == float(raw)

unitless_setter(d, newval) ==
    LET strval == format(d.format_code, newval)
    IN  IF IsError(strval) THEN Failed(strval) ELSE Sent(Command(d.name, strval.s))

int_getter(d, raw) == int(raw)

\* newval not in valid_set
NotAllowed(d, newval) == ~ \E x \in d.valid_set : PyEq(x, newval)

\* int_setter, were it to send without looking at valid_set
int_setter_unchecked(d, newval) ==
    LET strval == format(d.format_code, newval)
    IN  IF IsError(strval) THEN Failed(strval) ELSE Sent(Command(d.name, strval.s))

int_setter(d, newval) ==
    LET strval == format(d.format_code, newval)
    IN  IF d.has_valid_set /\ NotAllowed(d, newval) THEN Failed(Raise("ValueError"))
        ELSE IF IsError(strval) THEN Failed(strval)
        ELSE Sent(Command(d.name, strval.s))

unitful_getter(d, raw) ==
    LET x == float(raw)
    IN  IF IsError(x) THEN x ELSE Quantity(x.n, x.e, d.units)

unitful_setter(d, newval) ==
    LET q == rescale(assume_units(newval, d.units), d.units)
        strval == format(d.format_code, magnitude(q))
    IN  IF IsError(q) THEN Failed(q)
        ELSE IF IsError(strval) THEN Failed(strval)
        ELSE Sent(Command(d.name, strval.s))

bookmark_length(d) == Len(d.bookmark_symbol)

\* string_getter, were it to take one character off each end whatever the
\* bookmark's length
string_getter_one(d, raw) ==
    PyStr(IF bookmark_length(d) > 0 THEN Slice(raw, 1, 1) ELSE raw)

string_getter(d, raw) ==
    PyStr(IF bookmark_length(d) > 0
          THEN Slice(raw, bookmark_length(d), bookmark_length(d))
          ELSE raw)

string_setter(d, newval) ==
    Sent(Command(d.name, d.bookmark_symbol \o str(newval) \o d.bookmark_symbol))

\* fget of the property d, given the text query returned
getter(d, raw) ==
    CASE d.kind = "bool" -> bool_getter(d, raw)
      [] d.kind = "enum" -> enum_getter(d, raw)
      [] d.kind = "unitless" -> unitless_getter(d, raw)
      [] d.kind = "int" -> int_getter(d, raw)
      [] d.kind = "unitful" -> unitful_getter(d, raw)
      [] d.kind = "string" -> string_getter(d, raw)

\* fset of the property d
setter(d, newval) ==
    CASE d.kind = "bool" -> bool_setter(d, newval)
      [] d.kind = "enum" -> enum_setter(d, newval)
      [] d.kind = "unitless" -> unitless_setter(d, newval)
      [] d.kind = "int" -> int_setter(d, newval)
      [] d.kind = "unitful" -> unitful_setter(d, newval)
      [] d.kind = "string" -> string_setter(d, newval)

\* --------------------------------------------------------------- ProxyList

\* An index domain: an enum class (cls names it), or a tuple of values (seq).
EnumDomain(cls) == [cls |-> cls, seq |-> <<>>]
TupleDomain(seq) == [cls |-> "", seq |-> seq]

\* hasattr(valid_set, '__bases__'): only a class has bases
HasBases(valid_set) == valid_set.cls # ""

\* the members of valid_set, in the order iter(valid_set) gives them
Members(valid_set) ==
    IF HasBases(valid_set) THEN EnumItems(valid_set.cls) ELSE valid_set.seq

\* ProxyList.__init__
ProxyList(parent, proxy_cls, valid_set) ==
    [ _parent |-> parent, _proxy_cls |-> proxy_cls, _valid_set |-> valid_set,
      _isenum |-> IF HasBases(valid_set)
                  THEN ("Enum" \in EnumBases(valid_set.cls))
                       \/ ("IntEnum" \in EnumBases(valid_set.cls))
                  ELSE FALSE ]

\* proxy_cls(parent, idx): a new element
Construct(proxy_cls, parent, idx) == [cls |-> proxy_cls, parent |-> parent, idx |-> idx]
NoElement == Construct("", "", None)

\* idx in valid_set
Contains(valid_set, idx) ==
    \E k \in 1..Len(Members(valid_set)) : PyEq(Members(valid_set)[k], idx)

\* the try/except of __getitem__: enum[idx], or idx itself after a ValueError
Normalize(pl, idx) ==
    IF pl._isenum
    THEN LET found == EnumGetItem(pl._valid_set.cls, idx)
         IN  IF IsError(found) THEN idx ELSE found
    ELSE idx

\* ProxyList.__getitem__: the outcome and the element constructed, if any
getitem(pl, idx) ==
    LET i == Normalize(pl, idx)
    IN  IF ~Contains(pl._valid_set, i)
        THEN [out |-> Raise("IndexError"), elem |-> NoElement, calls |-> 0]
        ELSE [out |-> None, elem |-> Construct(pl._proxy_cls, pl._parent, i), calls |-> 1]

\* ProxyList.__len__
len(pl) == Len(Members(pl._valid_set))

\* the generator ProxyList.__iter__ returned has run through valid_set
IterDone(pl, it) == it.pos >= Len(Members(pl._valid_set))

\* the generator's step, were it to yield the first member's element every time
IterStep_first(pl, it) ==
    IF IterDone(pl, it)
    THEN [it EXCEPT !.done = TRUE]
    ELSE [it EXCEPT !.pos = it.pos + 1,
                    !.out = Append(it.out,
                        Construct(pl._proxy_cls, pl._parent, Members(pl._valid_set)[1]))]

\* One step of the generator ProxyList.__iter__ returned: the next member's
\* element, or the end of the loop.
IterStep(pl, it) ==
    IF IterDone(pl, it)
    THEN [it EXCEPT !.done = TRUE]
    ELSE [it EXCEPT !.pos = it.pos + 1,
                    !.out = Append(it.out,
                        Construct(pl._proxy_cls, pl._parent,
                                  Members(pl._valid_set)[it.pos + 1]))]

\* ------------------------------------------------------------------ inputs

Names == { <<"F">>, <<"S", ":", "V">> }

BoolLiterals == { <<"O", "N">>, <<"O", "F", "F">>, <<" ", "O", "N">> }

DecorationPairs ==
    { <<"None", "None">>, <<"int", "None">>, <<"unquote", "quote">>, <<"None", "quote">> }

Bookmarks == { <<"\"">>, <<>>, <<"'", "'">> }

\* the factory calls of the model, for one name and one readonly flag
AccessorsFor(n, r) ==
    { bool_property(n, t, f, r) : t \in BoolLiterals, f \in BoolLiterals }
    \cup { enum_property(n, e, p[1], p[2], r) :
              e \in {"Mode", "Chan", "Port"}, p \in DecorationPairs }
    \cup { unitless_property(n, c, r) : c \in {"e", "d"} }
    \cup { int_property(n, "d", r, FALSE, {}),
           int_property(n, "d", r, TRUE, {PyInt(1), PyInt(2), PyInt(3)}) }
    \cup { unitful_property(n, u, "e", r) : u \in {"V", "mV"} }
    \cup { string_property(n, b, r) : b \in Bookmarks }

Accessors == UNION { AccessorsFor(n, r) : n \in Names, r \in BOOLEAN }

NoAccessor == Descriptor("none", <<>>, TRUE)

\* the values an instrument user writes to the property d
WriteValues(d) ==
    CASE d.kind = "bool" -> {PyBool(TRUE), PyBool(FALSE)}
      [] d.kind = "enum" ->
            {EnumItems(d.enum)[k] : k \in 1..Len(EnumItems(d.enum))}
            \cup {PyStr(<<"z">>)}
      [] d.kind = "unitless" -> {PyFloat(15, -1), PyInt(2)}
      [] d.kind = "int" -> {PyInt(1), PyInt(3), PyInt(5), PyInt(-12)}
      [] d.kind = "unitful" ->
            { PyFloat(15, -1), PyInt(2), Quantity(2, 0, "V"), Quantity(25, 0, "mV"),
              Quantity(3, 0, "s") }
      [] d.kind = "string" -> {PyStr(<<"h", "i">>), PyStr(<<>>), PyStr(<<"a", "\"">>)}
      [] OTHER -> {}

\* the token of the command the transport received last, if it was a sendcmd
LastSentToken ==
    IF log # <<>> /\ log[Len(log)].call = "sendcmd"
    THEN {Drop(log[Len(log)].text, Len(acc.name) + 1)}
    ELSE {}

Padded(S) == S \cup {r \o <<"\n">> : r \in S} \cup {<<" ">> \o r : r \in S}

Samples(d) ==
    CASE d.kind = "bool" -> {d.inst_true, d.inst_false, d.inst_true \o <<"\n">>}
      [] d.kind = "enum" ->
            { str(EnumMembers(d.enum)[1].value),
              str(EnumMembers(d.enum)[1].value) \o <<"\n">>, <<"Z">> }
      [] d.kind = "unitless" -> { <<"1", ".", "5">>, <<" ", "2", "e", "1", "\n">>, <<"x">> }
      [] d.kind = "int" -> { <<"2">>, <<"-", "7", "\n">>, <<"x">> }
      [] d.kind = "unitful" -> { <<"1", ".", "5">>, <<"2", "\n">>, <<"x">> }
      [] d.kind = "string" -> { <<"\"", "h", "i", "\"">>, <<"\"", "h", "i", "\"", "\n">> }
      [] OTHER -> {}

\* what the instrument may answer to the next query
Responses == Padded(LastSentToken) \cup Samples(acc)

Owners == {"scope", "psu"}

Domains ==
    { EnumDomain("Chan"), EnumDomain("Port"), EnumDomain("ChanExt"),
      TupleDomain(<<PyInt(1), PyInt(2), PyInt(3)>>),
      TupleDomain(<<PyStr(<<"x">>), PyStr(<<"a">>)>>) }

Lists == { ProxyList(o, "Channel", D) : o \in Owners, D \in Domains }

NoList == ProxyList("", "", TupleDomain(<<>>))

Indices ==
    { PyStr(<<"a">>), PyStr(<<"d">>), PyStr(<<"z">>), PyInt(1), PyInt(9),
      EnumItem("Chan", <<"b">>), EnumItem("ChanExt", <<"d">>), EnumItem("Port", <<"q">>),
      EnumItem("Mode", <<"a", "c">>) }

\* ------------------------------------------------------------------- state

NoCall == [op |-> "none", idx |-> None, out |-> None, elem |-> NoElement, n |-> 0]

Init ==
    /\ log = <<>>
    /\ hist = <<>>
    /\ iters = <<>>
    /\ got = NoCall
    /\ made = 0
    /\ \/ acc \in Accessors /\ plist = NoList
       \/ acc = NoAccessor /\ plist \in Lists

\* self.query(text) and self.sendcmd(text), as the transport records them;
\* by is the access of hist that made the call
Call(call, text, by) == [call |-> call, text |-> text, by |-> by]

\* instance.attribute: property.__get__ calls fget, which queries once and
\* decodes the answer raw
Read(raw) ==
    /\ acc # NoAccessor
    /\ Len(hist) < MaxOps
    /\ log' = Append(log, Call("query", query_cmd(acc), Len(hist) + 1))
    /\ hist' = Append(hist, [op |-> "get", arg |-> None, raw |-> raw,
                             out |-> getter(acc, raw)])
    /\ UNCHANGED <<acc, plist, iters, got, made>>

\* instance.attribute = newval: property.__set__ raises AttributeError when
\* the property has no setter, else calls fset
Write(newval) ==
    /\ acc # NoAccessor
    /\ Len(hist) < MaxOps
    /\ LET r == IF acc.fset THEN setter(acc, newval) ELSE Failed(Raise("AttributeError"))
       IN  /\ log' = log \o [k \in 1..Len(r.cmds) |->
                                Call("sendcmd", r.cmds[k], Len(hist) + 1)]
           /\ hist' = Append(hist, [op |-> "set", arg |-> newval, raw |-> <<>>,
                                    out |-> r.out])
    /\ UNCHANGED <<acc, plist, iters, got, made>>

\* successful __getitem__ calls so far
Fetched == made - (IF iters = <<>> THEN 0 ELSE
             LET RECURSIVE Sum(_)
                 Sum(k) == IF k = 0 THEN 0 ELSE iters[k].pos + Sum(k - 1)
             IN  Sum(Len(iters)))

\* plist[idx]
GetItem(idx) ==
    /\ plist # NoList
    /\ Fetched < MaxGets
    /\ LET r == getitem(plist, idx)
       IN  /\ got' = [op |-> "getitem", idx |-> idx, out |-> r.out, elem |-> r.elem, n |-> 0]
           /\ made' = made + r.calls
    /\ UNCHANGED <<acc, log, hist, plist, iters>>

\* len(plist)
Length ==
    /\ plist # NoList
    /\ got' = [op |-> "len", idx |-> None, out |-> None, elem |-> NoElement, n |-> len(plist)]
    /\ UNCHANGED <<acc, log, hist, plist, iters, made>>

\* iter(plist): a new generator, which has not run yet
Iter ==
    /\ plist # NoList
    /\ Len(iters) < MaxIters
    /\ iters' = Append(iters, [pos |-> 0, done |-> FALSE, out |-> <<>>])
    /\ UNCHANGED <<acc, log, hist, plist, got, made>>

\* next(g) on the k-th generator
IterNext(k) ==
    /\ plist # NoList
    /\ k \in 1..Len(iters)
    /\ ~iters[k].done
    /\ iters' = [iters EXCEPT ![k] = IterStep(plist, iters[k])]
    /\ made' = made + (iters'[k].pos - iters[k].pos)
    /\ UNCHANGED <<acc, log, hist, plist, got>>

Next ==
    \/ \E raw \in Responses : Read(raw)
    \/ \E newval \in WriteValues(acc) : Write(newval)
    \/ \E idx \in Indices : GetItem(idx)
    \/ Length
    \/ Iter
    \/ \E k \in 1..MaxIters : IterNext(k)

Spec == Init /\ [][Next]_vars

\* ------------------------------------------------------------------ claims

\* the calls the transport received during the i-th access
CallsBy(i) ==
    LET During(c) == c.by = i
    IN  SelectSeq(log, During)

\* the token of the one command the i-th access sent
TokenSentBy(i) == Drop(CallsBy(i)[1].text, Len(acc.name) + 1)

\* the i-th access is a write that sent a command, and the next access is a
\* read that the instrument answered with the token of that command
EchoedAt(i) ==
    /\ i + 1 <= Len(hist)
    /\ hist[i].op = "set"
    /\ hist[i].out = None
    /\ hist[i + 1].op = "get"
    /\ Len(CallsBy(i)) = 1
    /\ hist[i + 1].raw = TokenSentBy(i)

IsMemberOf(v, S) == \E x \in S : PyEq(x, v)

\* C1: an int_property with a valid_set refuses a value outside the set with
\* ValueError before any call to the transport, and a write of a member sends
\* exactly one command (the property having a setter).
IntValidSetFailsFast ==
    \A i \in 1..Len(hist) :
        (acc.kind = "int" /\ acc.has_valid_set /\ acc.fset /\ hist[i].op = "set") =>
            IF IsMemberOf(hist[i].arg, acc.valid_set)
            THEN /\ Len(CallsBy(i)) = 1
                 /\ CallsBy(i)[1].call = "sendcmd"
            ELSE /\ hist[i].out = Raise("ValueError")
                 /\ CallsBy(i) = <<>>

\* a refused write is the only access so far, and the transport has seen nothing
IntValidSetRefused ==
    /\ acc.kind = "int" /\ acc.has_valid_set /\ acc.fset
    /\ Len(hist) = 1
    /\ hist[1].op = "set"
    /\ hist[1].arg = PyInt(5)
    /\ hist[1].out = Raise("ValueError")
    /\ log = <<>>

\* the wire token of value v under the codec of d, as the codec table gives it
WireToken(d, v) ==
    CASE d.kind = "bool" -> IF v = PyBool(TRUE) THEN d.inst_true ELSE d.inst_false
      [] d.kind = "enum" ->
            str(Decorate(d.output_decoration, ItemValue(EnumGetItem(d.enum, v))))
      [] d.kind = "unitless" -> IF d.format_code = "d" THEN str_int(v.n) ELSE str_e(v.n, v.e)
      [] d.kind = "int" -> str_int(v.n)
      [] d.kind = "unitful" ->
            IF v.t = "qty"
            THEN str_e(v.n, v.e + UnitExponent(v.u) - UnitExponent(d.units))
            ELSE str_e(v.n, v.e)
      [] d.kind = "string" -> d.bookmark_symbol \o v.s \o d.bookmark_symbol

\* C2: a successful read makes exactly one query, of NAME?, and no sendcmd;
\* a successful write makes exactly one sendcmd, of NAME, a space and the
\* encoded token, and no query.
OneCallPerAccess ==
    \A i \in 1..Len(hist) :
        ~IsError(hist[i].out) =>
            /\ hist[i].op = "get" =>
                  CallsBy(i) = << Call("query", acc.name \o <<"?">>, i) >>
            /\ hist[i].op = "set" =>
                  CallsBy(i) = << Call("sendcmd",
                                       acc.name \o <<" ">> \o WireToken(acc, hist[i].arg), i) >>

\* a successful write and then a successful read of a unitful property
OneCallEach ==
    /\ Len(hist) = 2
    /\ hist[1].op = "set" /\ hist[1].out = None
    /\ hist[2].op = "get" /\ ~IsError(hist[2].out)
    /\ acc.kind = "unitful"
    /\ Len(log) = 2

Resolved(D, idx) ==
    { k \in 1..Len(EnumMembers(D.cls)) :
        LET m == EnumMembers(D.cls)[k]
        IN  \/ idx = PyStr(m.item.s)
            \/ idx = m.item
            \/ idx = m.value }

\* what the claim says plist[idx] gives
GetItemAsClaimed ==
    IF HasBases(plist._valid_set)
    THEN IF Resolved(plist._valid_set, got.idx) # {}
         THEN /\ got.out = None
              /\ \E k \in Resolved(plist._valid_set, got.idx) :
                    got.elem = Construct(plist._proxy_cls, plist._parent,
                                         EnumMembers(plist._valid_set.cls)[k].item)
         ELSE /\ got.out = Raise("IndexError")
              /\ got.elem = NoElement
    ELSE (got.out = None) <=>
            (\E k \in 1..Len(plist._valid_set.seq) : plist._valid_set.seq[k] = got.idx)

\* C4: over an enum class, plist[idx] for a name, an item or a raw value of
\* an item gives the element of that item, and any other idx raises
\* IndexError with no element constructed; over another domain plist[idx]
\* succeeds exactly for the members.
GetItemNormalizes ==
    (plist # NoList /\ got.op = "getitem") => GetItemAsClaimed

\* the same, for the domains whose enum class derives from Enum or IntEnum
\* directly (the case __init__ recognizes) and for the domains that are no class
GetItemNormalizesDirect ==
    (plist # NoList /\ got.op = "getitem"
        /\ (HasBases(plist._valid_set) => plist._isenum)) => GetItemAsClaimed

\* the elements of a full iteration of plist
AllElements ==
    [ j \in 1..Len(Members(plist._valid_set)) |->
        Construct(plist._proxy_cls, plist._parent, Members(plist._valid_set)[j]) ]

MemberSet == { Members(plist._valid_set)[j] : j \in 1..Len(Members(plist._valid_set)) }

ViewState ==
    plist # NoList =>
        /\ got.op = "len" => got.n = Cardinality(MemberSet)
        /\ \A k \in 1..Len(iters) :
              /\ iters[k].pos <= Len(AllElements)
              /\ iters[k].out = SubSeq(AllElements, 1, iters[k].pos)
              /\ iters[k].done => iters[k].out = AllElements
              /\ \A j \in 1..Len(iters[k].out) : iters[k].out[j].parent = plist._parent

\* every element yielded or returned is one more call of the constructor
ViewStep ==
    /\ plist' = plist
    /\ \A k \in 1..Len(iters) :
          Len(iters'[k].out) # Len(iters[k].out) =>
             /\ Len(iters'[k].out) = Len(iters[k].out) + 1
             /\ made' = made + 1
    /\ (got' # got /\ got'.op = "getitem" /\ got'.out = None) => made' = made + 1

\* C5: len(plist) is the number of members; every iteration yields one newly
\* constructed element per member, in the domain's order, bound to the same
\* parent; and no operation changes the parent, the constructor or the domain,
\* so that every iteration yields the same.
ProxyListIsAView == []ViewState /\ [][ViewStep]_vars

\* two iterations, interleaved or not, have both ended, after a plist[idx]
TwoIterationsDone ==
    /\ plist # NoList
    /\ Len(Members(plist._valid_set)) >= 3
    /\ Len(iters) = 2
    /\ iters[1].done /\ iters[2].done
    /\ iters[1].out = iters[2].out
    /\ Len(iters[1].out) >= 3
    /\ got.op = "getitem" /\ got.out = None
    /\ made = 2 * Len(Members(plist._valid_set)) + 1

\* the i-th access wrote an item of the property's enum
WroteItem(i) ==
    /\ acc.kind = "enum"
    /\ hist[i].arg.t = "enum"
    /\ hist[i].arg = EnumGetItem(acc.enum, hist[i].arg)

\* C6 as stated: for every enum and every pair of decorations, reading back
\* the token a write of item e sent gives e.
EnumRoundTripAlways ==
    \A i \in 1..Len(hist) :
        (EchoedAt(i) /\ WroteItem(i)) => hist[i + 1].out = hist[i].arg

\* the input decoration undoes what the output decoration and the rendering
\* as text did to the wire value of item e
Inverts(d, e) ==
    Decorate(d.input_decoration,
             PyStr(strip(str(Decorate(d.output_decoration, ItemValue(e))))))
        = ItemValue(e)

\* C6, amended: reading back the token a write of item e sent gives e,
\* provided the input decoration, applied to the trimmed text of the
\* output-decorated wire value of e, gives that wire value back.
EnumRoundTrip ==
    \A i \in 1..Len(hist) :
        (EchoedAt(i) /\ WroteItem(i) /\ Inverts(acc, hist[i].arg)) =>
            hist[i + 1].out = hist[i].arg

\* a decorated enum property read back the item it wrote
EnumReadBack ==
    /\ Len(hist) = 2
    /\ EchoedAt(1) /\ WroteItem(1)
    /\ acc.input_decoration = "unquote"
    /\ Inverts(acc, hist[1].arg)
    /\ hist[2].out = hist[1].arg

\* C7 as stated: for every pair of literals, reading back the literal a write
\* of b sent gives b.
BoolRoundTripAlways ==
    \A i \in 1..Len(hist) :
        (acc.kind = "bool" /\ EchoedAt(i)) => hist[i + 1].out = hist[i].arg

\* the true literal has no surrounding whitespace and the false literal,
\* trimmed, is not the true literal
Distinguishable(d) ==
    /\ strip(d.inst_true) = d.inst_true
    /\ strip(d.inst_false) # d.inst_true

\* C7, amended: reading back the literal a write of b sent gives b, provided
\* the true literal has no surrounding whitespace and the false literal,
\* once trimmed, differs from it.
BoolRoundTrip ==
    \A i \in 1..Len(hist) :
        (acc.kind = "bool" /\ EchoedAt(i) /\ Distinguishable(acc)) =>
            hist[i + 1].out = hist[i].arg

\* a bool property read back the False it wrote
BoolReadBack ==
    /\ acc.kind = "bool" /\ Distinguishable(acc)
    /\ Len(hist) = 2
    /\ EchoedAt(1)
    /\ hist[1].arg = PyBool(FALSE)
    /\ hist[2].out = PyBool(FALSE)

\* C8: a string write sends the value between two copies of the bookmark
\* symbol; a read of that token takes len(symbol) characters off each end and
\* gives the value; with the empty symbol a read gives the response as it is.
StringRoundTrip ==
    \A i \in 1..Len(hist) :
        acc.kind = "string" =>
            /\ (hist[i].op = "set" /\ acc.fset) =>
                  CallsBy(i) = << Call("sendcmd",
                       acc.name \o <<" ">> \o acc.bookmark_symbol \o hist[i].arg.s
                           \o acc.bookmark_symbol, i) >>
            /\ EchoedAt(i) =>
                  /\ hist[i + 1].out = hist[i].arg
                  /\ Len(hist[i + 1].out.s)
                        = Len(hist[i + 1].raw) - 2 * Len(acc.bookmark_symbol)
            /\ (hist[i].op = "get" /\ acc.bookmark_symbol = <<>>) =>
                  hist[i].out = PyStr(hist[i].raw)

\* a string property with a bookmark of two characters read back its value
StringReadBack ==
    /\ acc.kind = "string"
    /\ Len(acc.bookmark_symbol) = 2
    /\ Len(hist) = 2
    /\ EchoedAt(1)
    /\ hist[1].arg = PyStr(<<"h", "i">>)
    /\ hist[2].out = PyStr(<<"h", "i">>)

\* C9: every getter trims the response before decoding it: a response with
\* whitespace around it decodes as the response without it.
GetterTrims ==
    \A i \in 1..Len(hist) :
        hist[i].op = "get" => hist[i].out = getter(acc, strip(hist[i].raw))

\* C10: a unitful write of a value with no unit sends its magnitude as it is;
\* of a value in a unit of the same dimension, its magnitude rescaled to the
\* property's unit; of a value in a unit of another dimension, it raises
\* ValueError and sends nothing.
UnitfulWriteRescales ==
    \A i \in 1..Len(hist) :
        (acc.kind = "unitful" /\ acc.fset /\ hist[i].op = "set") =>
            LET v == hist[i].arg
            IN  CASE v.t # "qty" ->
                        /\ hist[i].out = None
                        /\ CallsBy(i) = << Call("sendcmd",
                               acc.name \o <<" ">> \o str_e(v.n, v.e), i) >>
                  [] v.t = "qty" /\ UnitDimension(v.u) = UnitDimension(acc.units) ->
                        /\ hist[i].out = None
                        /\ CallsBy(i) = << Call("sendcmd",
                               acc.name \o <<" ">>
                                 \o str_e(v.n, v.e + UnitExponent(v.u)
                                                  - UnitExponent(acc.units)), i) >>
                  [] OTHER ->
                        /\ hist[i].out = Raise("ValueError")
                        /\ CallsBy(i) = <<>>

\* volts written to a millivolt property, then seconds
UnitfulWritten ==
    /\ acc.kind = "unitful" /\ acc.fset /\ acc.units = "mV"
    /\ Len(hist) = 2
    /\ hist[1].arg = Quantity(2, 0, "V") /\ hist[1].out = None
    /\ hist[2].arg = Quantity(3, 0, "s") /\ hist[2].out = Raise("ValueError")
    /\ Len(log) = 1

====
